---- MODULE Spec2Model ----
(***************************************************************************)
(* The canned-response matcher and the dialogue controller of the chat     *)
(* widget (ChatbotComponent.sendMessage and the App component that owns    *)
(* chatHistory), as a state machine.                                       *)
(*                                                                         *)
(* A text is a sequence of one-character strings, so that toLowerCase,     *)
(* trim and String.prototype.includes are computed, not assumed.           *)
(* React state is modelled at the granularity of one event handler, timer  *)
(* callback or promise continuation: the state updates queued by one       *)
(* synchronous block are applied together, in order, when it ends.         *)
(***************************************************************************)
EXTENDS Integers, Sequences, FiniteSets, TLC

VARIABLES
    rawCannedResponses,       \* the rule configuration loaded at start (Tier 2)
    chatHistory,              \* App state: sequence of [role, text]
    userInput,                \* ChatbotComponent state: the input buffer
    isLoading,                \* ChatbotComponent state: the pending flag
    isAccordionChatExpanded,  \* App state: ChatbotComponent is mounted iff TRUE
    initialAccordionQuestion, \* App state: the initialQuestion prop (<<>> = undefined)
    timer,                    \* <<>> or <<t>>: the setTimeout armed by the effect
    inflight,                 \* fetch calls awaiting the Completion Collaborator
    phase,                    \* "constructed" before App's mount effect, then "running"
    last                      \* what the most recent step did (observation only)

vars == <<rawCannedResponses, chatHistory, userInput, isLoading,
          isAccordionChatExpanded, initialAccordionQuestion, timer, inflight,
          phase, last>>

(***************************************************************************)
(* Bounds of the model.                                                    *)
(***************************************************************************)
MaxHistory == 5
MaxInFlight == 2
\* longest history that the closure of a pending timer may hold
MaxCapturedHistory == 3

(***************************************************************************)
(* Text: JavaScript string operations on sequences of characters.          *)
(***************************************************************************)
UpperLetters == <<"A","B","C","D","E","F","G","H","I","J","K","L","M",
                  "N","O","P","Q","R","S","T","U","V","W","X","Y","Z">>
LowerLetters == <<"a","b","c","d","e","f","g","h","i","j","k","l","m",
                  "n","o","p","q","r","s","t","u","v","w","x","y","z">>

WhiteSpace == {" "}

\* the case mappings, as tables over the letters
LowerMap ==
    [c \in {UpperLetters[i] : i \in DOMAIN UpperLetters} |->
        LowerLetters[CHOOSE i \in DOMAIN UpperLetters : UpperLetters[i] = c]]
UpperMap ==
    [c \in {LowerLetters[i] : i \in DOMAIN LowerLetters} |->
        UpperLetters[CHOOSE i \in DOMAIN LowerLetters : LowerLetters[i] = c]]

LowerChar(c) == IF c \in DOMAIN LowerMap THEN LowerMap[c] ELSE c

UpperChar(c) == IF c \in DOMAIN UpperMap THEN UpperMap[c] ELSE c

\* String.prototype.toLowerCase
\* the text left in the case it was typed in
keepCase(s) == s

toLowerCase(s) == [i \in 1..Len(s) |-> LowerChar(s[i])]

\* k.charAt(0).toUpperCase() + k.slice(1)
capitalize(k) == IF k = <<>> THEN <<>> ELSE <<UpperChar(k[1])>> \o Tail(k)

\* String.prototype.includes: k occurs in s as a contiguous substring
includes(s, k) ==
    LET n == Len(k)
    IN  \E i \in 0..(Len(s) - n) : \A j \in 1..n : s[i + j] = k[j]

\* String.prototype.trim
trim(s) ==
    LET keep == {i \in 1..Len(s) : s[i] \notin WhiteSpace}
    IN  IF keep = {} THEN <<>>
        ELSE SubSeq(s, CHOOSE i \in keep : \A j \in keep : i <= j,
                       CHOOSE i \in keep : \A j \in keep : i >= j)

\* Array.prototype.join(' ')
RECURSIVE joinSpace(_)
joinSpace(ks) ==
    IF ks = <<>> THEN <<>>
    ELSE IF Len(ks) = 1 THEN ks[1]
    ELSE ks[1] \o <<" ">> \o joinSpace(Tail(ks))

\* Array.prototype.includes on a list of texts
listIncludes(ks, k) == \E i \in DOMAIN ks : ks[i] = k

(***************************************************************************)
(* Rule Store.  A rule is [keywords |-> [all, any, alwaysMatch], response]. *)
(* An absent keyword list is the empty list: every reader of the lists      *)
(* treats the two alike (`all || []`, `all && all.length > 0`, `all?.`).    *)
(* The keyword lists are abridged from the shipped ones; the rule order,    *)
(* the shapes (any / all / alwaysMatch) and the keywords shared between     *)
(* the tiers ("fees", "cost") are kept.                                     *)
(***************************************************************************)
Rule(all, any, always, response) ==
    [keywords |-> [all |-> all, any |-> any, alwaysMatch |-> always],
     response |-> response]

isaAllowanceUsedQuery == <<"H","o","w"," ","m","u","c","h"," ","o","f"," ","m","y"," ","I","S","A"," ","a","l","l","o","w","a","n","c","e"," ","h","a","v","e"," ","I"," ","u","s","e","d"," ","t","h","i","s"," ","t","a","x"," ","y","e","a","r","?">>
isaAllowanceRemainingQuery == <<"H","o","w"," ","m","u","c","h"," ","o","f"," ","m","y"," ","I","S","A"," ","a","l","l","o","w","a","n","c","e"," ","i","s"," ","r","e","m","a","i","n","i","n","g"," ","f","o","r"," ","t","h","e"," ","c","u","r","r","e","n","t"," ","t","a","x"," ","y","e","a","r","?">>
esgFundsQuery == <<"W","h","i","c","h"," ","o","f"," ","m","y"," ","f","u","n","d","s"," ","h","e","l","d"," ","a","r","e"," ","E","S","G"," ","f","u","n","d","s","?">>
transactionHistoryQuery == <<"P","o","r","t","a","l","U","s","e","r","1","2","3","4"," ","T","r","a","n","s","a","c","t","i","o","n"," ","h","i","s","t","o","r","y">>

resp6Months == <<"+","8",".","5","%">>
respInception == <<"+","2","7",".","3","%">>
respFundCharge == <<"0",".","7","5","%">>
respSubscription == <<"5",",","0","0","0"," ","l","e","f","t">>
respIsaUsed == <<"1","5",",","0","0","0"," ","u","s","e","d">>
respPricing == <<"s","e","e"," ","p","r","i","c","i","n","g">>
respGreeting == <<"H","e","y"," ","t","h","e","r","e","!">>
respFallback == <<"n","o","t"," ","s","u","r","e">>

\* Tier 1: the rules hard-coded in ChatbotComponent
localHiddenPrompts == <<
    Rule(<<>>, <<<<"6"," ","m","o","n","t","h","s">>, <<"r","e","c","e","n","t">>>>, FALSE, resp6Months),
    Rule(<<>>, <<<<"i","n","v","e","s","t","m","e","n","t">>, <<"r","e","t","u","r","n">>, <<"s","i","n","c","e">>>>, FALSE, respInception),
    Rule(<<>>, <<<<"f","u","n","d"," ","c","h","a","r","g","e">>, <<"f","e","e","s">>, <<"c","o","s","t">>>>, FALSE, respFundCharge),
    Rule(<<>>, <<<<"s","u","b","s","c","r","i","p","t","i","o","n">>, <<"n","e","w">>, <<"t","o","p"," ","u","p">>>>, FALSE, respSubscription) >>

\* Tier 2 as shipped: cannedResponses.json, ending with the alwaysMatch rule
ShippedCannedResponses == <<
    Rule(<<>>, <<isaAllowanceUsedQuery, <<"I","S","A"," ","A","l","l","o","w","a","n","c","e"," ","u","s","e","d">>, <<"I","S","A"," ","u","s","e","d">>>>, FALSE, respIsaUsed),
    Rule(<<>>, <<<<"p","r","i","c","i","n","g">>, <<"c","o","s","t">>, <<"f","e","e","s">>>>, FALSE, respPricing),
    Rule(<<>>, <<<<"h","e","l","l","o">>, <<"h","i">>, <<"h","e","y">>>>, FALSE, respGreeting),
    Rule(<<>>, <<>>, TRUE, respFallback) >>

\* A Tier 2 configuration that lacks the trailing alwaysMatch rule
CannedResponsesWithoutFallback ==
    SubSeq(ShippedCannedResponses, 1, Len(ShippedCannedResponses) - 1)

Configurations == {ShippedCannedResponses, CannedResponsesWithoutFallback}

(***************************************************************************)
(* cannedResponses.ts: the processed rules (test and prompt).              *)
(***************************************************************************)
NoPrompt(kind) == [kind |-> kind, text |-> <<>>]
SomePrompt(text) == [kind |-> "string", text |-> text]

overridePrompt == <<"G","o","r","d","o","n"," ","1","2","3","4"," ","T","r","a","n","s","a","c","t","i","o","n"," ","h","i","s","t","o","r","y">>

effectivePrompt(rawRule) ==
    LET all == rawRule.keywords.all
        any == rawRule.keywords.any
        derived ==
            IF Len(any) > 0 THEN SomePrompt(capitalize(any[1]))
            ELSE IF Len(all) > 0
                 THEN SomePrompt(joinSpace([i \in 1..Len(all) |-> capitalize(all[i])]))
            ELSE IF rawRule.keywords.alwaysMatch THEN NoPrompt("null")
            ELSE NoPrompt("undefined")
    IN  IF /\ listIncludes(all, <<"g","o","r","d","o","n">>)
           /\ listIncludes(all, <<"1","2","3","4">>)
           /\ listIncludes(all, <<"t","r","a","n","s","a","c","t","i","o","n">>)
        THEN SomePrompt(overridePrompt)
        ELSE derived

\* rule.test(input) without the alwaysMatch branch
testKeywordsOnly(rawRule, input) ==
    LET lowerInput == toLowerCase(input)
        all == rawRule.keywords.all
        any == rawRule.keywords.any
    IN  \/ /\ Len(all) > 0
           /\ \A i \in DOMAIN all : includes(lowerInput, toLowerCase(all[i]))
        \/ /\ Len(any) > 0
           /\ \E i \in DOMAIN any : includes(lowerInput, toLowerCase(any[i]))

\* rule.test(input) with `every` of the all-branch turned into `some`
testAllAsSome(rawRule, input) ==
    LET lowerInput == toLowerCase(input)
        all == rawRule.keywords.all
        any == rawRule.keywords.any
    IN  \/ rawRule.keywords.alwaysMatch
        \/ /\ Len(all) > 0
           /\ \E i \in DOMAIN all : includes(lowerInput, toLowerCase(all[i]))
        \/ /\ Len(any) > 0
           /\ \E i \in DOMAIN any : includes(lowerInput, toLowerCase(any[i]))

\* rule.test(input) with `some` of the any-branch turned into `every`
testAnyAsEvery(rawRule, input) ==
    LET lowerInput == toLowerCase(input)
        all == rawRule.keywords.all
        any == rawRule.keywords.any
    IN  \/ rawRule.keywords.alwaysMatch
        \/ /\ Len(all) > 0
           /\ \A i \in DOMAIN all : includes(lowerInput, toLowerCase(all[i]))
        \/ /\ Len(any) > 0
           /\ \A i \in DOMAIN any : includes(lowerInput, toLowerCase(any[i]))

\* rule.test(input) without the length guards of its branches
testWithoutLengthGuards(rawRule, input) ==
    LET lowerInput == toLowerCase(input)
        all == rawRule.keywords.all
        any == rawRule.keywords.any
    IN  \/ rawRule.keywords.alwaysMatch
        \/ \A i \in DOMAIN all : includes(lowerInput, toLowerCase(all[i]))
        \/ \E i \in DOMAIN any : includes(lowerInput, toLowerCase(any[i]))

\* rule.test(input) with the alwaysMatch branch after the keyword branches,
\* taken only by a rule that carries no keyword
testKeywordsBeforeAlwaysMatch(rawRule, input) ==
    LET lowerInput == toLowerCase(input)
        all == rawRule.keywords.all
        any == rawRule.keywords.any
    IN  IF Len(all) > 0
        THEN \A i \in DOMAIN all : includes(lowerInput, toLowerCase(all[i]))
        ELSE IF Len(any) > 0
        THEN \E i \in DOMAIN any : includes(lowerInput, toLowerCase(any[i]))
        ELSE rawRule.keywords.alwaysMatch

\* rule.test(input)
test(rawRule, input) ==
    LET lowerInput == toLowerCase(input)
        all == rawRule.keywords.all
        any == rawRule.keywords.any
    IN  IF rawRule.keywords.alwaysMatch THEN TRUE
        ELSE IF /\ Len(all) > 0
                /\ \A i \in DOMAIN all : includes(lowerInput, toLowerCase(all[i]))
             THEN TRUE
        ELSE IF /\ Len(any) > 0
                /\ \E i \in DOMAIN any : includes(lowerInput, toLowerCase(any[i]))
             THEN TRUE
        ELSE FALSE

\* the exported array: one processed rule per raw rule, in the same order
cannedResponses ==
    [i \in DOMAIN rawCannedResponses |->
        [response |-> rawCannedResponses[i].response,
         prompt   |-> effectivePrompt(rawCannedResponses[i]),
         keywords |-> rawCannedResponses[i].keywords]]

(***************************************************************************)
(* ChatbotComponent: prompts offered as buttons.                           *)
(***************************************************************************)
personalizedWelcomeMessage == <<"H","e","l","l","o"," ","P","o","r","t","a","l","U","s","e","r","1","2","3","4","!">>

greetingKeywords == <<<<"h","e","l","l","o">>, <<"h","i">>, <<"h","e","y">>, <<"y","o","u"," ","t","h","e","r","e">>, <<"n","i","c","e"," ","t","o"," ","m","e","e","t"," ","y","o","u">>, <<"t","h","a","n","k"," ","y","o","u">>,
                      <<"t","h","a","n","k","s">>, <<"c","h","e","e","r","s">>, <<"a","p","p","r","e","c","i","a","t","e"," ","i","t">>, <<"w","e","a","t","h","e","r">>, <<"r","e","c","i","p","e">>, <<"s","p","o","r","t","s">>>>

isSpecificAccountPrompt(rule) ==
    /\ rule.prompt.kind = "string"
    /\ listIncludes(<<isaAllowanceUsedQuery, isaAllowanceRemainingQuery,
                      esgFundsQuery, transactionHistoryQuery>>, rule.prompt.text)

isFallbackOrGreeting(rule) ==
    \/ rule.keywords.alwaysMatch
    \/ /\ Len(rule.keywords.any) > 0
       /\ \E i \in DOMAIN rule.keywords.any :
              listIncludes(greetingKeywords, toLowerCase(rule.keywords.any[i]))

specificAccountPrompts ==
    {i \in DOMAIN cannedResponses : isSpecificAccountPrompt(cannedResponses[i])}

generalHelpPrompts ==
    {i \in DOMAIN cannedResponses :
        /\ cannedResponses[i].prompt.kind = "string"
        /\ ~isSpecificAccountPrompt(cannedResponses[i])
        /\ ~isFallbackOrGreeting(cannedResponses[i])}

(***************************************************************************)
(* ChatbotComponent.sendMessage                                            *)
(***************************************************************************)
UserTurn(text) == [role |-> "user", text |-> text]
ModelTurn(text) == [role |-> "model", text |-> text]

\* the early return without the isLoading disjunct
rejectsOnlyEmpty(messageContent, capturedIsLoading) ==
    messageContent = <<>>

\* the early return without the empty-message disjunct
rejectsOnlyPending(messageContent, capturedIsLoading) ==
    capturedIsLoading

\* the early return: nothing to send, or a resolution is pending
rejects(messageContent, capturedIsLoading) ==
    messageContent = <<>> \/ capturedIsLoading

\* the Tier 1 condition: any keyword of `all` and `any` together is contained
\* the Tier 1 test with the keywords compared as written
matchedKeywordsAsWritten(rule, lowerMessageContent) ==
    LET combinedKeywords == rule.keywords.all \o rule.keywords.any
    IN  \E i \in DOMAIN combinedKeywords :
            includes(lowerMessageContent, combinedKeywords[i])

matched(rule, lowerMessageContent) ==
    LET combinedKeywords == rule.keywords.all \o rule.keywords.any
    IN  \E i \in DOMAIN combinedKeywords :
            includes(lowerMessageContent, toLowerCase(combinedKeywords[i]))

FirstOf(hits) == IF hits = {} THEN 0 ELSE CHOOSE i \in hits : \A j \in hits : i <= j

\* the loop over localHiddenPrompts reading only the `all` keywords
firstLocalRuleAllOnly(messageContent) ==
    FirstOf({i \in DOMAIN localHiddenPrompts :
                \E k \in DOMAIN localHiddenPrompts[i].keywords.all :
                    includes(toLowerCase(messageContent),
                             toLowerCase(localHiddenPrompts[i].keywords.all[k]))})

\* the Tier 1 loop run over a list of rules: index of the first hit (0: none)
firstMatchedIn(rules, messageContent) ==
    FirstOf({i \in DOMAIN rules : matched(rules[i], toLowerCase(messageContent))})

\* index of the rule at which the loop over localHiddenPrompts returns (0: none)
firstLocalRule(messageContent) ==
    firstMatchedIn(localHiddenPrompts, messageContent)

\* the loop over cannedResponses without its early return: the last hit wins
lastCannedRule(messageContent) ==
    LET hits == {i \in DOMAIN rawCannedResponses :
                    test(rawCannedResponses[i], messageContent)}
    IN  IF hits = {} THEN 0 ELSE CHOOSE i \in hits : \A j \in hits : i >= j

\* the loop over cannedResponses passing over the rules whose response is
\* already in the history
firstCannedRuleNotYetAnswered(messageContent) ==
    FirstOf({i \in DOMAIN rawCannedResponses :
                /\ test(rawCannedResponses[i], messageContent)
                /\ \A k \in DOMAIN chatHistory :
                       chatHistory[k] # ModelTurn(rawCannedResponses[i].response)})

\* index of the rule at which the loop over cannedResponses returns (0: none)
firstCannedRule(messageContent) ==
    FirstOf({i \in DOMAIN rawCannedResponses :
                test(rawCannedResponses[i], messageContent)})

\* a check of the functional update that never finds a duplicate
isDuplicateNever(prevHistory, response) == FALSE

\* the check of the functional update: the last message is already this response
isDuplicate(prevHistory, response) ==
    /\ Len(prevHistory) > 0
    /\ prevHistory[Len(prevHistory)].text = response
    /\ prevHistory[Len(prevHistory)].role = "model"

\* the functional update without its duplicate check
appendResponseAlways(prevHistory, response) ==
    Append(prevHistory, ModelTurn(response))

\* the functional update run twice for one hit without its duplicate check
appendResponseTwice(prevHistory, response) ==
    Append(Append(prevHistory, ModelTurn(response)), ModelTurn(response))

\* the functional update that appends a rule's response
appendResponse(prevHistory, response) ==
    IF isDuplicate(prevHistory, response)
    THEN prevHistory
    ELSE Append(prevHistory, ModelTurn(response))

\* the user turn appended whatever the origin of the text
appendUserTurnAlways(prevHistory, questionToSend, messageContent) ==
    Append(prevHistory, UserTurn(messageContent))

\* the user turn is appended only when the text comes from the input buffer
appendUserTurn(prevHistory, questionToSend, messageContent) ==
    IF questionToSend = <<>>
    THEN Append(prevHistory, UserTurn(messageContent))
    ELSE prevHistory

Step(op, accepted, messageContent, tier, rule) ==
    [op |-> op, accepted |-> accepted, messageContent |-> messageContent,
     tier |-> tier, rule |-> rule, suppressed |-> FALSE, outcome |-> "none",
     request |-> <<>>]

\* the instruction that precedes the message in the last entry (abridged)
initialInstruction == <<"Y","o","u"," ","a","r","e"," ","A","n","n","i","e",".","\n","\n">>

\* the body of the request: one entry per turn of the history the closure
\* holds, then one user entry with the instruction and the message
apiContents(capturedChatHistory, messageContent) ==
    [i \in 1..Len(capturedChatHistory) |->
        [role |-> capturedChatHistory[i].role,
         parts |-> <<[text |-> capturedChatHistory[i].text]>>]]
    \o <<[role |-> "user",
          parts |-> <<[text |-> initialInstruction \o messageContent]>>]>>

\* sendMessage(questionToSend) run from a closure that captured isLoading,
\* userInput and chatHistory; questionToSend = <<>> stands for a missing (or
\* empty, hence falsy) argument.  Sets chatHistory, userInput, isLoading,
\* inflight and last.
sendMessage(op, questionToSend, capturedIsLoading, capturedUserInput, capturedChatHistory) ==
    LET messageContent ==
            IF questionToSend # <<>> THEN questionToSend ELSE trim(capturedUserInput)
        withUser == appendUserTurn(chatHistory, questionToSend, messageContent)
        local == firstLocalRule(messageContent)
        canned == firstCannedRule(messageContent)
    IN  IF rejects(messageContent, capturedIsLoading)
        THEN /\ UNCHANGED <<chatHistory, userInput, isLoading, inflight>>
             /\ last' = Step(op, FALSE, messageContent, 0, 0)
        ELSE /\ userInput' = IF questionToSend = <<>> THEN <<>> ELSE userInput
             /\ IF local > 0
                THEN /\ chatHistory' =
                            appendResponse(withUser, localHiddenPrompts[local].response)
                     /\ isLoading' = FALSE
                     /\ UNCHANGED inflight
                     /\ last' = [Step(op, TRUE, messageContent, 1, local) EXCEPT
                                     !.suppressed = isDuplicate(withUser,
                                         localHiddenPrompts[local].response)]
                ELSE IF canned > 0
                THEN /\ chatHistory' =
                            appendResponse(withUser, cannedResponses[canned].response)
                     /\ isLoading' = FALSE
                     /\ UNCHANGED inflight
                     /\ last' = [Step(op, TRUE, messageContent, 2, canned) EXCEPT
                                     !.suppressed = isDuplicate(withUser,
                                         cannedResponses[canned].response)]
                ELSE /\ chatHistory' = withUser
                     /\ isLoading' = TRUE
                     /\ inflight' = Append(inflight,
                            [messageContent |-> messageContent,
                             live |-> TRUE])
                     /\ last' = [Step(op, TRUE, messageContent, 3, 0) EXCEPT
                                     !.request = apiContents(capturedChatHistory,
                                                             messageContent)]

(***************************************************************************)
(* Inputs of the model: what the user types, what arrives from the search  *)
(* box, and how the Completion Collaborator answers.                       *)
(***************************************************************************)
TypedTexts == {<<" ">>, <<"R","e","c","e","n","t"," ","f","e","e","s">>, <<"w","e","a","t","h","e","r"," ">>}

SearchQueries == {<<" ">>, <<"R","e","c","e","n","t"," ","f","e","e","s">>, <<"w","e","a","t","h","e","r"," ">>}

generatedText == <<"g","e","n","e","r","a","t","e","d">>
failureMessage == <<"t","i","m","e","o","u","t">>
\* the text of a turn built from parts[0].text when parts[0] has no text field
undefinedText == <<"undefined">>
\* "generated": a payload with candidates[0].content.parts[0].text;
\* "textless": candidates[0].content.parts[0] is there but has no text field;
\* "malformed": candidates, content or parts is missing or empty;
\* "failed": fetch rejects, or the response is not ok
CollaboratorOutcomes == {"generated", "textless", "malformed", "failed"}

\* the Model turn each outcome of the fetch appends
outcomeText(outcome) ==
    IF outcome = "generated" THEN generatedText
    ELSE IF outcome = "textless" THEN undefinedText
    ELSE IF outcome = "malformed" THEN <<"E","r","r","o","r",":"," ","C","o","u","l","d"," ","n","o","t"," ","p","a","r","s","e"," ","A","P","I"," ","r","e","s","p","o","n","s","e",".">>
    ELSE <<"E","r","r","o","r",":"," ">> \o failureMessage

(***************************************************************************)
(* The effect of ChatbotComponent on initialQuestion, and unmounting.      *)
(***************************************************************************)
\* a new thread that starts with the question alone
seededWithoutWelcome(initialQuestion) == <<UserTurn(initialQuestion)>>

seededHistory(initialQuestion) ==
    <<ModelTurn(personalizedWelcomeMessage), UserTurn(initialQuestion)>>

\* the timer holds the sendMessage closure of the render that ran the effect
armedTimer(initialQuestion, renderIsLoading, renderChatHistory) ==
    <<[question |-> initialQuestion, isLoading |-> renderIsLoading,
       chatHistory |-> renderChatHistory]>>

\* an unmount that aborted the calls in flight
abortedOnUnmount(calls) == <<>>

\* the set-state calls of a component that is gone are dropped
orphaned(calls) ==
    [i \in 1..Len(calls) |-> [calls[i] EXCEPT !.live = FALSE]]

\* room left under MaxHistory for `n` more turns, beyond the turns that the
\* calls in flight and the armed timer will still append
Reserved == Len(inflight) + (IF timer = <<>> THEN 0 ELSE 1)
HasRoom(n) == Len(chatHistory) + Reserved + n <= MaxHistory

(***************************************************************************)
(* Actions                                                                 *)
(***************************************************************************)
\* App's mount effect: an empty history is seeded with the welcome turn
AppMountEffect ==
    /\ phase = "constructed"
    /\ phase' = "running"
    /\ chatHistory' = IF Len(chatHistory) = 0
                      THEN <<ModelTurn(personalizedWelcomeMessage)>>
                      ELSE chatHistory
    /\ last' = Step("mount", FALSE, <<>>, 0, 0)
    /\ UNCHANGED <<rawCannedResponses, userInput, isLoading, isAccordionChatExpanded,
                   initialAccordionQuestion, timer, inflight>>

\* onChange of the input field (disabled while isLoading)
handleChange(value) ==
    /\ phase = "running"
    /\ isAccordionChatExpanded
    /\ ~isLoading
    /\ userInput' = value
    /\ last' = Step("change", FALSE, <<>>, 0, 0)
    /\ UNCHANGED <<rawCannedResponses, chatHistory, isLoading, isAccordionChatExpanded,
                   initialAccordionQuestion, timer, inflight, phase>>

\* Enter in the input field
handleKeyPress ==
    /\ phase = "running"
    /\ isAccordionChatExpanded
    /\ HasRoom(2)
    /\ Len(inflight) < MaxInFlight
    /\ IF ~isLoading
       THEN sendMessage("typed", <<>>, isLoading, userInput, chatHistory)
       ELSE /\ last' = Step("typed", FALSE, trim(userInput), 0, 0)
            /\ UNCHANGED <<chatHistory, userInput, isLoading, inflight>>
    /\ UNCHANGED <<rawCannedResponses, isAccordionChatExpanded,
                   initialAccordionQuestion, timer, phase>>

\* the Send button
handleSendClick ==
    /\ phase = "running"
    /\ isAccordionChatExpanded
    /\ HasRoom(2)
    /\ Len(inflight) < MaxInFlight
    /\ sendMessage("typed", <<>>, isLoading, userInput, chatHistory)
    /\ UNCHANGED <<rawCannedResponses, isAccordionChatExpanded,
                   initialAccordionQuestion, timer, phase>>

\* a suggestion button, shown once the history is not empty
handleCannedQuestionClick(i) ==
    /\ phase = "running"
    /\ isAccordionChatExpanded
    /\ Len(chatHistory) > 0
    /\ i \in specificAccountPrompts \cup generalHelpPrompts
    /\ HasRoom(1)
    /\ Len(inflight) < MaxInFlight
    /\ sendMessage("click", cannedResponses[i].prompt.text, isLoading, userInput,
                   chatHistory)
    /\ UNCHANGED <<rawCannedResponses, isAccordionChatExpanded,
                   initialAccordionQuestion, timer, phase>>

\* the search box of App: starts a new thread and opens the chat
handleSearchSubmit(searchQuery) ==
    LET question == trim(searchQuery)
    IN  /\ phase = "running"
        /\ IF question = <<>>
           THEN /\ last' = Step("search", FALSE, question, 0, 0)
                /\ UNCHANGED <<chatHistory, userInput, isLoading,
                               isAccordionChatExpanded, initialAccordionQuestion,
                               timer, inflight>>
           ELSE /\ Len(inflight) + 3 <= MaxHistory
                /\ chatHistory' = seededHistory(question)
                /\ initialAccordionQuestion' = question
                /\ isAccordionChatExpanded' = TRUE
                /\ IF ~isAccordionChatExpanded
                   THEN \* the component mounts and its effect runs
                        /\ isLoading' = FALSE
                        /\ userInput' = <<>>
                        /\ timer' = armedTimer(question, FALSE, seededHistory(question))
                   ELSE IF question # initialAccordionQuestion
                   THEN \* the effect is cleaned up and runs again
                        /\ timer' = armedTimer(question, isLoading,
                                             seededHistory(question))
                        /\ UNCHANGED <<isLoading, userInput>>
                   ELSE \* no dependency of the effect changed
                        UNCHANGED <<timer, isLoading, userInput>>
                /\ UNCHANGED inflight
                /\ last' = Step("search", TRUE, question, 0, 0)
        /\ UNCHANGED <<rawCannedResponses, phase>>

\* an unmount whose cleanup leaves the timer of the effect armed
UnmountWithoutCleanup(op) ==
    /\ isAccordionChatExpanded' = FALSE
    /\ isLoading' = FALSE
    /\ userInput' = <<>>
    /\ inflight' = orphaned(inflight)
    /\ last' = Step(op, FALSE, <<>>, 0, 0)
    /\ UNCHANGED <<rawCannedResponses, chatHistory, initialAccordionQuestion, timer,
                   phase>>

\* unmount of ChatbotComponent: its state is dropped and its timer cleared
Unmount(op) ==
    /\ isAccordionChatExpanded' = FALSE
    /\ isLoading' = FALSE
    /\ userInput' = <<>>
    /\ timer' = <<>>
    /\ inflight' = orphaned(inflight)
    /\ last' = Step(op, FALSE, <<>>, 0, 0)
    /\ UNCHANGED <<rawCannedResponses, chatHistory, initialAccordionQuestion, phase>>

\* the Open Chat / Close Chat button
toggleAccordionChat ==
    /\ phase = "running"
    /\ IF isAccordionChatExpanded
       THEN Unmount("close")
       ELSE /\ Len(inflight) + 3 <= MaxHistory
            /\ initialAccordionQuestion # <<>> =>
                    Len(chatHistory) <= MaxCapturedHistory
            /\ isAccordionChatExpanded' = TRUE
            /\ isLoading' = FALSE
            /\ userInput' = <<>>
            /\ IF initialAccordionQuestion # <<>>
               THEN /\ chatHistory' = seededHistory(initialAccordionQuestion)
                    /\ timer' = armedTimer(initialAccordionQuestion, FALSE,
                                        chatHistory)
               ELSE UNCHANGED <<chatHistory, timer>>
            /\ last' = Step("toggle", FALSE, <<>>, 0, 0)
            /\ UNCHANGED <<rawCannedResponses, initialAccordionQuestion, inflight, phase>>

\* the close button of the chat header (onClose)
collapseAccordionChat ==
    /\ phase = "running"
    /\ isAccordionChatExpanded
    /\ Unmount("close")

\* the timer of the effect fires: sendMessage(initialQuestion) from its closure
TimerFires ==
    /\ phase = "running"
    /\ timer # <<>>
    /\ Len(inflight) < MaxInFlight
    /\ sendMessage("timer", timer[1].question, timer[1].isLoading, <<>>,
                   timer[1].chatHistory)
    /\ timer' = <<>>
    /\ UNCHANGED <<rawCannedResponses, isAccordionChatExpanded,
                   initialAccordionQuestion, phase>>

RemoveAt(seq, k) == SubSeq(seq, 1, k - 1) \o SubSeq(seq, k + 1, Len(seq))

\* a continuation that never reaches setIsLoading(false)
isLoadingLeftAsIs(call) == isLoading

\* finally { setIsLoading(false) }: dropped when the component of the call is gone
isLoadingAfterSettle(call) == IF call.live THEN FALSE ELSE isLoading

\* the fetch of call k settles: the continuation of sendMessage after await
FetchSettles(k, outcome) ==
    /\ phase = "running"
    /\ k \in DOMAIN inflight
    /\ chatHistory' = Append(chatHistory, ModelTurn(outcomeText(outcome)))
    /\ isLoading' = isLoadingAfterSettle(inflight[k])
    /\ inflight' = RemoveAt(inflight, k)
    /\ last' = [Step("settle", FALSE, inflight[k].messageContent, 3, 0) EXCEPT
                    !.outcome = outcome]
    /\ UNCHANGED <<rawCannedResponses, userInput, isAccordionChatExpanded,
                   initialAccordionQuestion, timer, phase>>

Init ==
    /\ rawCannedResponses \in Configurations
    /\ chatHistory = <<>>
    /\ userInput = <<>>
    /\ isLoading = FALSE
    /\ isAccordionChatExpanded = FALSE
    /\ initialAccordionQuestion = <<>>
    /\ timer = <<>>
    /\ inflight = <<>>
    /\ phase = "constructed"
    /\ last = Step("init", FALSE, <<>>, 0, 0)

Next ==
    \/ AppMountEffect
    \/ \E value \in TypedTexts : handleChange(value)
    \/ handleKeyPress
    \/ handleSendClick
    \/ \E i \in DOMAIN rawCannedResponses : handleCannedQuestionClick(i)
    \/ \E searchQuery \in SearchQueries : handleSearchSubmit(searchQuery)
    \/ toggleAccordionChat
    \/ collapseAccordionChat
    \/ TimerFires
    \/ \E k \in 1..MaxInFlight, outcome \in CollaboratorOutcomes : FetchSettles(k, outcome)

Spec == Init /\ [][Next]_vars

\* the Completion Collaborator eventually answers or fails every call: a fetch
\* in flight eventually settles
FetchEventuallySettles ==
    \A k \in 1..MaxInFlight :
        WF_vars(\E outcome \in CollaboratorOutcomes : FetchSettles(k, outcome))

LiveSpec == Init /\ [][Next]_vars /\ FetchEventuallySettles

(***************************************************************************)
(* The matcher on its own: rule lists and inputs drawn from bounded sets,  *)
(* to which the loops of sendMessage and sendMessage itself are applied.   *)
(* The rule list under evaluation is held in rawCannedResponses, the input *)
(* in userInput, and the outcome in last.                                  *)
(***************************************************************************)
kGordon == <<"g","o","r","d","o","n">>
k1234 == <<"1","2","3","4">>
kTransaction == <<"t","r","a","n","s","a","c","t","i","o","n">>
kPassword == <<"p","a","s","s","w","o","r","d">>
R1 == <<"R","1">>
R2 == <<"R","2">>
R3 == <<"R","3">>
R4 == <<"R","4">>

ruleAll3 == Rule(<<kGordon, k1234, kTransaction>>, <<>>, FALSE, R1)
ruleAll2 == Rule(<<kGordon, k1234>>, <<>>, FALSE, R4)
ruleAll1 == Rule(<<kTransaction>>, <<>>, FALSE, R4)
ruleAny1 == Rule(<<>>, <<kPassword>>, FALSE, R2)
ruleAny3 == Rule(<<>>, <<kTransaction, kPassword, k1234>>, FALSE, R4)
ruleBoth == Rule(<<kGordon, k1234>>, <<kPassword>>, FALSE, R4)
ruleEmpty == Rule(<<>>, <<>>, FALSE, R4)
ruleAlways == Rule(<<>>, <<>>, TRUE, R3)
\* the three keywords of the fixed prompt and a further one
ruleAll4 == Rule(<<kGordon, k1234, kTransaction, kPassword>>, <<>>, FALSE, R1)
\* alwaysMatch together with All and Any keywords
ruleAlwaysKeyed == Rule(<<kGordon, k1234>>, <<kPassword>>, TRUE, R3)
ruleAlwaysAny == Rule(<<>>, <<kPassword>>, TRUE, R3)

\* the rule list of the concrete scenario: All, Any, AlwaysMatch
ScenarioRules == <<ruleAll3, ruleAny1, ruleAlways>>

MatcherRuleLists ==
    {ScenarioRules,
     <<ruleAll3>>, <<ruleAll2>>, <<ruleAll1>>, <<ruleAny1>>, <<ruleAny3>>,
     <<ruleBoth>>, <<ruleEmpty>>,
     <<ruleAll3, ruleAll1>>, <<ruleAny1, ruleAny3>>, <<ruleAny3, ruleAll2>>,
     <<ruleEmpty, ruleAny3>>, <<ruleEmpty, ruleAlways>>,
     <<ruleAlwaysKeyed>>, <<ruleAll3, ruleAlwaysAny>>, <<ruleAll4>>}

MatcherInputs ==
    {<<"s","h","o","w"," ","G","o","r","d","o","n"," ","1","2","3","4"," ","t","r","a","n","s","a","c","t","i","o","n"," ","d","e","t","a","i","l","s">>,
     <<"I"," ","f","o","r","g","o","t"," ","m","y"," ","p","a","s","s","w","o","r","d">>,
     <<"w","h","a","t"," ","i","s"," ","t","h","e"," ","w","e","a","t","h","e","r">>,
     <<"G","O","R","D","O","N"," ","1","2","3","4">>,
     <<"T","r","a","n","s","a","c","t","i","o","n">>,
     <<"m","y"," ","P","a","s","s","W","o","r","d"," ","a","n","d"," ","1","2","3","4">>,
     <<"g","o","r","d","o","n">>,
     <<>>}

\* the Tier 1 loop of sendMessage applied to the rule list
matchTier1 ==
    /\ last' = Step("tier1", FALSE, userInput, 1,
                    firstMatchedIn(rawCannedResponses, userInput))
    /\ UNCHANGED <<rawCannedResponses, chatHistory, userInput, isLoading,
                   isAccordionChatExpanded, initialAccordionQuestion, timer,
                   inflight, phase>>

\* the Tier 2 loop of sendMessage applied to the rule list
matchTier2 ==
    /\ last' = Step("tier2", FALSE, userInput, 2, firstCannedRule(userInput))
    /\ UNCHANGED <<rawCannedResponses, chatHistory, userInput, isLoading,
                   isAccordionChatExpanded, initialAccordionQuestion, timer,
                   inflight, phase>>

\* the same text and the same keywords in another letter case
toUpperCase(s) == [i \in 1..Len(s) |-> UpperChar(s[i])]
InputRecasings(input) == {input, toLowerCase(input), toUpperCase(input)}
upperCaseKeywords(rule) ==
    Rule([i \in 1..Len(rule.keywords.all) |-> toUpperCase(rule.keywords.all[i])],
         [i \in 1..Len(rule.keywords.any) |-> toUpperCase(rule.keywords.any[i])],
         rule.keywords.alwaysMatch, rule.response)
RuleListRecasings(rules) ==
    {rules, [i \in 1..Len(rules) |-> upperCaseKeywords(rules[i])]}

\* the loop that was last applied is applied again to the same input and the
\* same rule list written in another letter case
matchRecased ==
    /\ last.op \in {"tier1", "tier2"}
    /\ \E input \in InputRecasings(userInput),
          rules \in RuleListRecasings(rawCannedResponses) :
            /\ <<input, rules>> # <<userInput, rawCannedResponses>>
            /\ userInput' = input
            /\ rawCannedResponses' = rules
    /\ last' = IF last.op = "tier1"
               THEN Step("tier1", FALSE, userInput', 1,
                         firstMatchedIn(rawCannedResponses, userInput)')
               ELSE Step("tier2", FALSE, userInput', 2, firstCannedRule(userInput)')
    /\ UNCHANGED <<chatHistory, isLoading, isAccordionChatExpanded,
                   initialAccordionQuestion, timer, inflight, phase>>

\* the prompt that effectivePrompt derives for rule i
derivePrompt(i) ==
    /\ i \in DOMAIN rawCannedResponses
    /\ last' = [Step("effectivePrompt", FALSE, cannedResponses[i].prompt.text, 2, i)
                    EXCEPT !.outcome = cannedResponses[i].prompt.kind]
    /\ UNCHANGED <<rawCannedResponses, chatHistory, userInput, isLoading,
                   isAccordionChatExpanded, initialAccordionQuestion, timer,
                   inflight, phase>>

\* rule i tested on its own prompt, as the Tier 2 loop does with the text of
\* its suggestion button
testOwnPrompt(i) ==
    /\ i \in DOMAIN rawCannedResponses
    /\ cannedResponses[i].prompt.kind = "string"
    /\ last' = Step("testOwnPrompt",
                    test(rawCannedResponses[i], cannedResponses[i].prompt.text),
                    cannedResponses[i].prompt.text, 2, i)
    /\ UNCHANGED <<rawCannedResponses, chatHistory, userInput, isLoading,
                   isAccordionChatExpanded, initialAccordionQuestion, timer,
                   inflight, phase>>

\* App mounted, the panel open, the input typed into the field
MatcherInit ==
    /\ rawCannedResponses \in MatcherRuleLists
    /\ userInput \in MatcherInputs
    /\ chatHistory = <<ModelTurn(personalizedWelcomeMessage)>>
    /\ isLoading = FALSE
    /\ isAccordionChatExpanded = TRUE
    /\ initialAccordionQuestion = <<>>
    /\ timer = <<>>
    /\ inflight = <<>>
    /\ phase = "running"
    /\ last = Step("init", FALSE, <<>>, 0, 0)

MatcherNext ==
    \/ matchTier1
    \/ matchTier2
    \/ matchRecased
    \/ \E i \in DOMAIN rawCannedResponses : derivePrompt(i)
    \/ \E i \in DOMAIN rawCannedResponses : testOwnPrompt(i)
    \/ handleSendClick

MatcherSpec == MatcherInit /\ [][MatcherNext]_vars

(***************************************************************************)
(* Notions of the specification, stated apart from the code above.         *)
(***************************************************************************)
\* keyword is a case-insensitive substring of input
ContainsIgnoringCase(input, keyword) ==
    \E i \in 0..(Len(input) - Len(keyword)) :
        \A j \in 1..Len(keyword) : LowerChar(input[i + j]) = LowerChar(keyword[j])

\* the condition of a rule (AlwaysMatch, All, Any) holds of input
Satisfied(rule, input) ==
    \/ rule.keywords.alwaysMatch
    \/ /\ rule.keywords.all # <<>>
       /\ \A k \in DOMAIN rule.keywords.all :
              ContainsIgnoringCase(input, rule.keywords.all[k])
    \/ /\ rule.keywords.any # <<>>
       /\ \E k \in DOMAIN rule.keywords.any :
              ContainsIgnoringCase(input, rule.keywords.any[k])

Tier1Satisfied(input) ==
    {i \in DOMAIN localHiddenPrompts : Satisfied(localHiddenPrompts[i], input)}
Tier2Satisfied(input) ==
    {i \in DOMAIN rawCannedResponses : Satisfied(rawCannedResponses[i], input)}
Lowest(S) == CHOOSE i \in S : \A j \in S : i <= j

EndsWith(history, suffix) ==
    /\ Len(history) >= Len(suffix)
    /\ SubSeq(history, Len(history) - Len(suffix) + 1, Len(history)) = suffix

EndsWithAlwaysMatch ==
    /\ Len(rawCannedResponses) > 0
    /\ rawCannedResponses[Len(rawCannedResponses)].keywords.alwaysMatch

\* the most recent step ran the resolution pipeline on an accepted submission
Submitted == last.accepted /\ last.op \in {"typed", "click", "timer"}
\* the most recent step was an accepted submission that a rule resolved
ResolvedByRule == Submitted /\ last.tier \in {1, 2}
\* the response of the rule that resolved it
FiredResponse ==
    IF last.tier = 1 THEN localHiddenPrompts[last.rule].response
    ELSE rawCannedResponses[last.rule].response

(***************************************************************************)
(* C1: whenever an accepted submission's message satisfies some Tier 1     *)
(* rule, it is resolved in Tier 1: the turn it leaves at the end of the    *)
(* history is a Tier 1 response, no Tier 2 rule fired, and no call to the  *)
(* Completion Collaborator is in flight for that message.                  *)
(***************************************************************************)
C1_Tier1Precedence ==
    (Submitted /\ Tier1Satisfied(last.messageContent) # {}) =>
        /\ last.tier = 1
        /\ Len(chatHistory) > 0
        /\ chatHistory[Len(chatHistory)].role = "model"
        /\ \E i \in DOMAIN localHiddenPrompts :
               chatHistory[Len(chatHistory)].text = localHiddenPrompts[i].response
        /\ \A k \in DOMAIN inflight :
               inflight[k].messageContent # last.messageContent

\* a submission resolved in Tier 1 although a keyword rule of Tier 2 matches too
C1_Witness ==
    /\ Submitted
    /\ last.tier = 1
    /\ \E j \in Tier2Satisfied(last.messageContent) :
           ~rawCannedResponses[j].keywords.alwaysMatch

(***************************************************************************)
(* C2: the rule that fires is the lowest-index satisfied rule of its tier: *)
(* in Tier 1 when some Tier 1 rule is satisfied, and otherwise in Tier 2   *)
(* when some Tier 2 rule is satisfied; its response ends the history.      *)
(***************************************************************************)
C2_LowestIndexFires ==
    Submitted =>
        LET m == last.messageContent
        IN  /\ Tier1Satisfied(m) # {} =>
                /\ last.tier = 1
                /\ last.rule = Lowest(Tier1Satisfied(m))
                /\ EndsWith(chatHistory,
                     <<ModelTurn(localHiddenPrompts[Lowest(Tier1Satisfied(m))].response)>>)
            /\ (Tier1Satisfied(m) = {} /\ Tier2Satisfied(m) # {}) =>
                /\ last.tier = 2
                /\ last.rule = Lowest(Tier2Satisfied(m))
                /\ EndsWith(chatHistory,
                     <<ModelTurn(rawCannedResponses[Lowest(Tier2Satisfied(m))].response)>>)

\* a Tier 2 rule fired after an unsatisfied earlier rule and before a satisfied later one
C2_Witness ==
    /\ Submitted
    /\ last.tier = 2
    /\ \E j \in Tier2Satisfied(last.messageContent) : j > last.rule
    /\ \E j \in DOMAIN rawCannedResponses :
           j < last.rule /\ j \notin Tier2Satisfied(last.messageContent)

(***************************************************************************)
(* C3: with a Tier 2 list that ends with an alwaysMatch rule, every        *)
(* accepted submission is resolved by a rule and no call to the Completion *)
(* Collaborator is ever made or settled.                                   *)
(***************************************************************************)
C3_FallbackResolvesAll ==
    EndsWithAlwaysMatch =>
        /\ inflight = <<>>
        /\ last.op # "settle"
        /\ Submitted => last.tier \in {1, 2}

\* the trailing alwaysMatch rule itself resolved a submission
C3_Witness ==
    /\ EndsWithAlwaysMatch
    /\ Submitted
    /\ last.tier = 2
    /\ last.rule = Len(rawCannedResponses)
    /\ Tier2Satisfied(last.messageContent) = {Len(rawCannedResponses)}

(***************************************************************************)
(* C4: idempotent suppression.  As stated: the same input submitted twice  *)
(* in a row, the same rule firing both times, has the rule's response      *)
(* appended only once, so no history shows the input and the response      *)
(* twice over at its end.                                                  *)
(***************************************************************************)
C4_ResponseOnceForRepeatedInput ==
    ResolvedByRule =>
        ~EndsWith(chatHistory,
                  <<UserTurn(last.messageContent), ModelTurn(FiredResponse),
                    UserTurn(last.messageContent), ModelTurn(FiredResponse)>>)

(***************************************************************************)
(* C4, as the code has it: the response R of the rule that fires is        *)
(* suppressed exactly when the history it would be appended to already     *)
(* ends with {Model, R}.  So a step in which a rule fires never puts       *)
(* {Model, R} directly after {Model, R}, and a prompt clicked on a history *)
(* that ends with its response leaves the history as it is, whereas a      *)
(* typed submission, whose User turn comes first, always gets its response.*)
(***************************************************************************)
C4_SuppressedAfterSameModelTurn ==
    [][ResolvedByRule' =>
          LET R == FiredResponse'
          IN  /\ chatHistory' # chatHistory =>
                    ~EndsWith(chatHistory', <<ModelTurn(R), ModelTurn(R)>>)
              /\ last'.suppressed <=>
                    (last'.op # "typed" /\ EndsWith(chatHistory, <<ModelTurn(R)>>))
              /\ last'.suppressed => chatHistory' = chatHistory
              /\ ~last'.suppressed => EndsWith(chatHistory', <<ModelTurn(R)>>)
       ]_vars

\* a prompt was clicked again right after its response, which was suppressed
C4_Witness ==
    /\ ResolvedByRule
    /\ last.op = "click"
    /\ last.suppressed
    /\ EndsWith(chatHistory, <<ModelTurn(FiredResponse)>>)

(***************************************************************************)
(* C5: as stated, for a history that ends with {Model, R}: a submission    *)
(* that resolves to R leaves nothing after that turn, neither a duplicate  *)
(* Model turn nor any other turn.                                          *)
(***************************************************************************)
C5_NothingAddedAfterSameResponse ==
    ResolvedByRule =>
        \A k \in 1..(Len(chatHistory) - 1) :
            ~(/\ chatHistory[k] = ModelTurn(FiredResponse)
              /\ SubSeq(chatHistory, k + 1, Len(chatHistory)) =
                    <<UserTurn(last.messageContent), ModelTurn(FiredResponse)>>)

(***************************************************************************)
(* C5, as the code has it: when the history ends with {Model, R} and the   *)
(* next submission resolves to R, the history is unchanged only if the     *)
(* text was supplied by a prompt click (or by the timer of a new thread);  *)
(* typed text grows it by {User, text} and {Model, R}.                     *)
(***************************************************************************)
C5_UnchangedOnlyWithoutUserTurn ==
    [][(ResolvedByRule' /\ EndsWith(chatHistory, <<ModelTurn(FiredResponse')>>)) =>
          IF last'.op = "typed"
          THEN chatHistory' = chatHistory \o
                   <<UserTurn(last'.messageContent), ModelTurn(FiredResponse')>>
          ELSE chatHistory' = chatHistory
       ]_vars

\* the shortest such history: welcome and R, with the repeated submission suppressed
C5_Witness ==
    /\ ResolvedByRule
    /\ last.suppressed
    /\ chatHistory = <<ModelTurn(personalizedWelcomeMessage), ModelTurn(FiredResponse)>>

(***************************************************************************)
(* C6: a submission whose text is empty after trimming (typed into the     *)
(* input field or given to the search box) changes nothing: the history,   *)
(* isLoading, the rule store, the input buffer, the timer and the calls in *)
(* flight are as before, and no rule is recorded as evaluated.             *)
(***************************************************************************)
Blank(text) == \A i \in DOMAIN text : text[i] \in WhiteSpace

C6_BlankSubmissionIsNoOp ==
    [][(\/ last'.op = "typed" /\ Blank(userInput)
        \/ last'.op = "search" /\ last'.messageContent = <<>>) =>
          /\ ~last'.accepted
          /\ last'.tier = 0
          /\ last'.rule = 0
          /\ UNCHANGED <<chatHistory, isLoading, rawCannedResponses, userInput,
                         timer, inflight, isAccordionChatExpanded,
                         initialAccordionQuestion>>
       ]_vars

\* a buffer holding only white space was submitted while nothing was pending
C6_Witness ==
    /\ last.op = "typed"
    /\ ~last.accepted
    /\ ~isLoading
    /\ userInput # <<>>
    /\ Blank(userInput)

(***************************************************************************)
(* C7: a typed or prompt-click submission made while isLoading is true is  *)
(* dropped: no turn is appended, nothing is queued (no call, no timer) and *)
(* no error turn appears; isLoading and the input buffer stay as they are. *)
(***************************************************************************)
C7_SubmissionWhilePendingDropped ==
    [][(isLoading /\ last'.op \in {"typed", "click"}) =>
          /\ ~last'.accepted
          /\ UNCHANGED <<chatHistory, inflight, timer, isLoading, userInput,
                         rawCannedResponses>>
       ]_vars

\* a prompt with a non-empty text was clicked while a call was in flight
C7_Witness ==
    /\ isLoading
    /\ last.op = "click"
    /\ ~last.accepted
    /\ last.messageContent # <<>>
    /\ inflight # <<>>

(***************************************************************************)
(* C8: single-flight, as stated: at no point are two resolutions in        *)
(* progress for the same conversation, that is, never more than one call   *)
(* to the Completion Collaborator is in flight.                            *)
(***************************************************************************)
C8_SingleFlight == Len(inflight) <= 1

(***************************************************************************)
(* C9: as stated: every accepted submission, typed or prompt click,        *)
(* appends exactly one {User, text} turn: the step keeps the old history   *)
(* as a prefix and adds one User turn, carrying the submitted text.        *)
(***************************************************************************)
C9_OneUserTurnPerSubmission ==
    [][(last'.accepted /\ last'.op \in {"typed", "click"}) =>
          /\ Len(chatHistory') > Len(chatHistory)
          /\ SubSeq(chatHistory', 1, Len(chatHistory)) = chatHistory
          /\ chatHistory'[Len(chatHistory) + 1] = UserTurn(last'.messageContent)
          /\ \A k \in (Len(chatHistory) + 2)..Len(chatHistory') :
                 chatHistory'[k].role = "model"
       ]_vars

(***************************************************************************)
(* C10: as stated: every startThread with a non-empty question, a repeated *)
(* question included, that some rule matches leaves the history           *)
(* [welcome, {User, question}] and the resolution of the question          *)
(* scheduled, not to be dropped.                                           *)
(***************************************************************************)
C10_StartThreadResolves ==
    (/\ last.op = "search"
     /\ last.accepted
     /\ Tier1Satisfied(last.messageContent) \cup Tier2Satisfied(last.messageContent) # {}) =>
        /\ chatHistory = seededHistory(last.messageContent)
        /\ timer = armedTimer(last.messageContent, FALSE, chatHistory)

(***************************************************************************)
(* Notions for the matcher on its own.                                     *)
(***************************************************************************)
AllOnly(rule) ==
    rule.keywords.all # <<>> /\ rule.keywords.any = <<>> /\ ~rule.keywords.alwaysMatch
AnyOnly(rule) ==
    rule.keywords.any # <<>> /\ rule.keywords.all = <<>> /\ ~rule.keywords.alwaysMatch
ContainedOf(keywords, input) ==
    {k \in DOMAIN keywords : ContainsIgnoringCase(input, keywords[k])}

\* the step evaluated the Tier 2 rules on last.messageContent
Tier2Evaluated ==
    \/ last.op = "tier2"
    \/ last.op = "typed" /\ last.accepted /\ last.tier \in {2, 3}
\* the step evaluated the Tier 1 loop over the rule list on last.messageContent
Tier1Evaluated == last.op = "tier1"
\* rule i was evaluated and found not to match
Skipped(i) == last.rule = 0 \/ i < last.rule

(***************************************************************************)
(* C11: a Tier 2 rule with an All condition matches exactly when every     *)
(* keyword is a case-insensitive substring of the input: the rule that     *)
(* fires has all its keywords contained, and a rule passed over lacks at   *)
(* least one (for example it has 2 of 3).                                  *)
(***************************************************************************)
C11_AllRequiresEveryKeyword ==
    Tier2Evaluated =>
        \A i \in DOMAIN rawCannedResponses :
            LET all == rawCannedResponses[i].keywords.all
            IN  AllOnly(rawCannedResponses[i]) =>
                    /\ last.rule = i =>
                           ContainedOf(all, last.messageContent) = DOMAIN all
                    /\ Skipped(i) =>
                           ContainedOf(all, last.messageContent) # DOMAIN all

\* an input with 2 of the 3 keywords, differing in case, did not match
C11_Witness ==
    /\ last.op = "tier2"
    /\ rawCannedResponses = <<ruleAll3>>
    /\ Cardinality(ContainedOf(ruleAll3.keywords.all, last.messageContent)) = 2
    /\ ~includes(last.messageContent, kGordon)
    /\ last.rule = 0

(***************************************************************************)
(* C12: a rule with an Any condition matches exactly when at least one     *)
(* keyword is a case-insensitive substring of the input, in the Tier 1     *)
(* loop and in the Tier 2 loop: the rule that fires has a keyword          *)
(* contained, and a rule passed over has none.                             *)
(***************************************************************************)
C12_AnyRequiresOneKeyword ==
    (Tier1Evaluated \/ Tier2Evaluated) =>
        \A i \in DOMAIN rawCannedResponses :
            LET any == rawCannedResponses[i].keywords.any
            IN  AnyOnly(rawCannedResponses[i]) =>
                    /\ last.rule = i => ContainedOf(any, last.messageContent) # {}
                    /\ Skipped(i) => ContainedOf(any, last.messageContent) = {}

\* an input with exactly one of the three keywords matched
C12_Witness ==
    /\ Tier1Evaluated \/ Tier2Evaluated
    /\ rawCannedResponses = <<ruleAny3>>
    /\ Cardinality(ContainedOf(ruleAny3.keywords.any, last.messageContent)) = 1
    /\ last.rule = 1

\* the rule the specified Matcher fires on a rule list: the first satisfied one (0: none)
MatcherFires(rules, input) ==
    LET satisfied == {i \in DOMAIN rules : Satisfied(rules[i], input)}
    IN  IF satisfied = {} THEN 0 ELSE Lowest(satisfied)

(***************************************************************************)
(* C13: as stated: on every list of Tier 1 rules (keywords All and/or Any, *)
(* no alwaysMatch) and every input, the Tier 1 loop of sendMessage fires   *)
(* the rule the Matcher fires, or none when the Matcher fires none.        *)
(***************************************************************************)
C13_Tier1LoopAgreesWithMatcher ==
    (/\ Tier1Evaluated
     /\ \A i \in DOMAIN rawCannedResponses :
            ~rawCannedResponses[i].keywords.alwaysMatch) =>
        last.rule = MatcherFires(rawCannedResponses, last.messageContent)

NoKeywords(rule) ==
    rule.keywords.all = <<>> /\ rule.keywords.any = <<>> /\ ~rule.keywords.alwaysMatch

(***************************************************************************)
(* C14: a rule without alwaysMatch whose All and Any keyword lists are     *)
(* both empty never fires, whatever the input, in the Tier 1 loop and in   *)
(* the Tier 2 loop: the loops pass it over and go on to the next rule.     *)
(***************************************************************************)
C14_EmptyKeywordListsNeverMatch ==
    (Tier1Evaluated \/ Tier2Evaluated) =>
        /\ last.rule > 0 => ~NoKeywords(rawCannedResponses[last.rule])
        /\ (\A i \in DOMAIN rawCannedResponses : NoKeywords(rawCannedResponses[i]))
               => last.rule = 0

\* a non-empty input passed over the rule without keywords and matched the next rule
C14_Witness ==
    /\ Tier1Evaluated \/ Tier2Evaluated
    /\ last.messageContent # <<>>
    /\ NoKeywords(rawCannedResponses[1])
    /\ last.rule = 2

\* the three inputs of the concrete scenario
scenarioTransactionInput == <<"s","h","o","w"," ","G","o","r","d","o","n"," ","1","2","3","4"," ","t","r","a","n","s","a","c","t","i","o","n"," ","d","e","t","a","i","l","s">>
scenarioPasswordInput == <<"I"," ","f","o","r","g","o","t"," ","m","y"," ","p","a","s","s","w","o","r","d">>
scenarioWeatherInput == <<"w","h","a","t"," ","i","s"," ","t","h","e"," ","w","e","a","t","h","e","r">>

(***************************************************************************)
(* C15: with the Tier 2 rules [All{gordon, 1234, transaction} -> R1,       *)
(* Any{password} -> R2, AlwaysMatch -> R3], typing "show Gordon 1234       *)
(* transaction details" is answered R1, "I forgot my password" R2 and      *)
(* "what is the weather" R3, each as the Model turn after the User turn,   *)
(* with no call to the Completion Collaborator.                            *)
(***************************************************************************)
C15_ScenarioResolves ==
    (rawCannedResponses = ScenarioRules /\ last.op = "typed" /\ last.accepted) =>
        LET answered(response) ==
                /\ chatHistory = <<ModelTurn(personalizedWelcomeMessage),
                                   UserTurn(last.messageContent), ModelTurn(response)>>
                /\ inflight = <<>>
                /\ ~isLoading
        IN  /\ last.messageContent = scenarioTransactionInput => answered(R1)
            /\ last.messageContent = scenarioPasswordInput => answered(R2)
            /\ last.messageContent = scenarioWeatherInput => answered(R3)

\* the first input of the scenario was typed and answered R1
C15_Witness ==
    /\ rawCannedResponses = ScenarioRules
    /\ last.op = "typed"
    /\ last.accepted
    /\ last.messageContent = scenarioTransactionInput
    /\ chatHistory[Len(chatHistory)] = ModelTurn(R1)

\* the Model turn the specification names for each outcome of the collaborator
specifiedOutcomeText(outcome) ==
    IF outcome = "generated" THEN generatedText
    ELSE IF outcome = "failed" THEN <<"E","r","r","o","r",":"," ">> \o failureMessage
    ELSE <<"C","o","u","l","d"," ","n","o","t"," ","p","a","r","s","e"," ","r","e","s","p","o","n","s","e">>

(***************************************************************************)
(* C16: as stated: when a call to the Completion Collaborator settles,     *)
(* exactly one turn is appended and nothing else changes in the history:   *)
(* {Model, generatedText} on a well-formed success, {Model, "Could not     *)
(* parse response"} when the success payload lacks the expected text, and  *)
(* {Model, "Error: <message>"} on a failure.                               *)
(***************************************************************************)
C16_OutcomeAppendsSpecifiedTurn ==
    [][last'.op = "settle" =>
          chatHistory' =
              Append(chatHistory, ModelTurn(specifiedOutcomeText(last'.outcome)))
       ]_vars

(***************************************************************************)
(* C17: provided every call to the Completion Collaborator eventually      *)
(* settles, isLoading never stays true: whenever it is true it eventually  *)
(* becomes false again, whether the call succeeds, returns an unusable     *)
(* payload or fails (a rule hit never leaves it true at all); and with     *)
(* isLoading false a non-empty typed submission is accepted.               *)
(***************************************************************************)
C17_PendingEventuallyFalse ==
    /\ isLoading ~> ~isLoading
    /\ [][ResolvedByRule' => ~isLoading']_vars
    /\ [][(~isLoading /\ last'.op = "typed" /\ ~Blank(userInput)) => last'.accepted]_vars

\* a failed call has settled, isLoading is false again and the next typed
\* submission has been accepted
C17_Witness ==
    /\ isAccordionChatExpanded
    /\ last.op = "typed"
    /\ last.accepted
    /\ \E k \in DOMAIN chatHistory :
           /\ k < Len(chatHistory)
           /\ chatHistory[k] = ModelTurn(outcomeText("failed"))

(***************************************************************************)
(* C18: as stated: an accepted submission runs Tier 1, then Tier 2 only if *)
(* Tier 1 found no match, then the Completion Collaborator only if Tier 2  *)
(* found no match, and it enters resolution only when no earlier           *)
(* submission is still being resolved (none has a call in flight).         *)
(***************************************************************************)
C18_SubmissionPath ==
    [][Submitted' =>
          /\ last'.tier = 2 => Tier1Satisfied(last'.messageContent) = {}
          /\ last'.tier = 3 =>
                /\ Tier1Satisfied(last'.messageContent) = {}
                /\ Tier2Satisfied(last'.messageContent) = {}
          /\ inflight = <<>>
       ]_vars

IsPrefix(older, newer) ==
    /\ Len(older) <= Len(newer)
    /\ SubSeq(newer, 1, Len(older)) = older

(***************************************************************************)
(* C19: as stated: the history is append-only: except in the step in which *)
(* a new top-level question is initiated from the search box, every step   *)
(* leaves the existing turns as they are and at most adds turns at the     *)
(* end, closing and re-opening the chat panel included.                    *)
(***************************************************************************)
C19_HistoryAppendOnly ==
    [][~(last'.op = "search" /\ last'.accepted) => IsPrefix(chatHistory, chatHistory')]_vars

(***************************************************************************)
(* C20: the duplicate-suppression step: when a rule with response R fires, *)
(* the history at the moment of the update is the old history, with the    *)
(* User turn added if the text was typed; if its last turn is {Model, R}   *)
(* it is left as it is, otherwise exactly {Model, R} is appended; in both  *)
(* cases no call to the Completion Collaborator is made and isLoading is   *)
(* false afterwards.                                                       *)
(***************************************************************************)
C20_SuppressOrAppendOnce ==
    [][ResolvedByRule' =>
          LET R == FiredResponse'
              atUpdate == IF last'.op = "typed"
                          THEN Append(chatHistory, UserTurn(last'.messageContent))
                          ELSE chatHistory
          IN  /\ chatHistory' =
                    IF atUpdate # <<>> /\ atUpdate[Len(atUpdate)] = ModelTurn(R)
                    THEN atUpdate
                    ELSE Append(atUpdate, ModelTurn(R))
              /\ inflight' = inflight
              /\ ~isLoading'
       ]_vars

\* the question of a new thread was resolved by a rule: its response was
\* appended once after the seeded User turn, with no call and isLoading false
C20_Witness ==
    /\ ResolvedByRule
    /\ ~last.suppressed
    /\ last.op = "timer"
    /\ chatHistory = Append(seededHistory(last.messageContent), ModelTurn(FiredResponse))
    /\ inflight = <<>>
    /\ ~isLoading

(***************************************************************************)
(* Notions for the request sent to the Completion Collaborator.            *)
(***************************************************************************)
RequestEntry(role, text) == [role |-> role, parts |-> <<[text |-> text]>>]

HistoryEntries(history) ==
    [i \in 1..Len(history) |-> RequestEntry(history[i].role, history[i].text)]

\* the step handed a request to the Completion Collaborator
Requested == Submitted /\ last.tier = 3

(***************************************************************************)
(* C21: as stated: the request of a submission has one entry per turn of   *)
(* the history as it stands when the call is made, the User turn just      *)
(* appended for this submission included, in history order, followed by    *)
(* exactly one user entry whose text is the instruction and the message.   *)
(***************************************************************************)
C21_RequestBuiltFromHistory ==
    Requested =>
        last.request = HistoryEntries(chatHistory)
                       \o <<RequestEntry("user",
                                         initialInstruction \o last.messageContent)>>

(***************************************************************************)
(* C22: no cancellation.  A call in flight stays in flight, in its place,  *)
(* through every step that is not the settling of a call (a startThread    *)
(* reset, a prompt click, the closing of the panel, ...); the settling of  *)
(* a call removes that call alone and appends one Model turn with the text *)
(* of its outcome, whether or not its component is still mounted; and      *)
(* while a call is in flight a call eventually settles.                    *)
(***************************************************************************)
C22_NoCancellation ==
    /\ [][ IF last'.op = "settle"
           THEN /\ \E k \in DOMAIN inflight : inflight' = RemoveAt(inflight, k)
                /\ chatHistory' =
                       Append(chatHistory, ModelTurn(outcomeText(last'.outcome)))
           ELSE /\ Len(inflight') >= Len(inflight)
                /\ \A k \in DOMAIN inflight :
                       inflight'[k].messageContent = inflight[k].messageContent
         ]_vars
    /\ (inflight # <<>> /\ last.op # "settle") ~> (last.op = "settle")

\* a call settled after its panel was closed, and its Model turn is there
C22_Witness ==
    /\ last.op = "settle"
    /\ ~isAccordionChatExpanded
    /\ chatHistory[Len(chatHistory)] = ModelTurn(outcomeText(last.outcome))

(***************************************************************************)
(* C23: a rule flagged alwaysMatch is satisfied by every input, whatever   *)
(* All or Any keywords it also carries and whether or not they occur in    *)
(* the input: the Tier 2 loop never passes over such a rule.               *)
(***************************************************************************)
C23_AlwaysMatchSatisfiedByAll ==
    Tier2Evaluated =>
        \A i \in DOMAIN rawCannedResponses :
            rawCannedResponses[i].keywords.alwaysMatch => ~Skipped(i)

\* an alwaysMatch rule fired on an input with none of the keywords it carries
C23_Witness ==
    /\ last.op = "tier2"
    /\ last.rule \in DOMAIN rawCannedResponses
    /\ LET rule == rawCannedResponses[last.rule]
       IN  /\ rule.keywords.alwaysMatch
           /\ rule.keywords.all # <<>>
           /\ rule.keywords.any # <<>>
           /\ ContainedOf(rule.keywords.all, last.messageContent) = {}
           /\ ContainedOf(rule.keywords.any, last.messageContent) = {}

(***************************************************************************)
(* C24: matching is case-insensitive on both sides.  When the Tier 1 loop  *)
(* or the Tier 2 loop is applied again to an input and a rule list that    *)
(* differ from the previous ones only in the letter case of the input and  *)
(* of the keywords, the same rule fires, or none does as before.           *)
(***************************************************************************)
SameIgnoringCase(s, t) == toLowerCase(s) = toLowerCase(t)

SameKeywordsIgnoringCase(ks, ls) ==
    /\ Len(ks) = Len(ls)
    /\ \A i \in DOMAIN ks : SameIgnoringCase(ks[i], ls[i])

SameRulesIgnoringCase(rules, others) ==
    /\ Len(rules) = Len(others)
    /\ \A i \in DOMAIN rules :
           /\ SameKeywordsIgnoringCase(rules[i].keywords.all, others[i].keywords.all)
           /\ SameKeywordsIgnoringCase(rules[i].keywords.any, others[i].keywords.any)
           /\ rules[i].keywords.alwaysMatch = others[i].keywords.alwaysMatch

C24_CaseInsensitive ==
    [][ (/\ last.op \in {"tier1", "tier2"}
         /\ last'.op = last.op
         /\ SameIgnoringCase(last.messageContent, last'.messageContent)
         /\ SameRulesIgnoringCase(rawCannedResponses, rawCannedResponses'))
        => last'.rule = last.rule
      ]_vars

\* a rule whose keyword is written in upper case fired on a lower-case input
C24_Witness ==
    /\ last.op \in {"tier1", "tier2"}
    /\ last.rule \in DOMAIN rawCannedResponses
    /\ LET any == rawCannedResponses[last.rule].keywords.any
       IN  /\ Len(any) = 1
           /\ any[1] = toUpperCase(any[1])
           /\ any[1] # toLowerCase(any[1])
    /\ last.messageContent = toLowerCase(last.messageContent)
    /\ last.messageContent # toUpperCase(last.messageContent)

(***************************************************************************)
(* Notions for the display prompt of a rule.                               *)
(***************************************************************************)
Capitalised(keyword) ==
    [i \in 1..Len(keyword) |-> IF i = 1 THEN UpperChar(keyword[1]) ELSE keyword[i]]

RECURSIVE SpaceJoined(_)
SpaceJoined(words) ==
    IF Len(words) = 1 THEN words[1]
    ELSE SpaceJoined(SubSeq(words, 1, Len(words) - 1)) \o <<" ">> \o words[Len(words)]

HasOverrideKeywords(rule) ==
    {kGordon, k1234, kTransaction} \subseteq
        {rule.keywords.all[k] : k \in DOMAIN rule.keywords.all}

(***************************************************************************)
(* C25: as stated: the prompt of a rule flagged alwaysMatch is absent,     *)
(* whatever keywords it carries; otherwise it is the fixed prompt when the *)
(* All list contains "gordon", "1234" and "transaction", else the first    *)
(* Any keyword capitalised, else (no Any keywords) the All keywords each   *)
(* capitalised and joined by single spaces.                                *)
(***************************************************************************)
C25_PromptDerivation ==
    last.op = "effectivePrompt" =>
        LET rule == rawCannedResponses[last.rule]
            all == rule.keywords.all
            any == rule.keywords.any
        IN  IF rule.keywords.alwaysMatch THEN last.outcome # "string"
            ELSE IF HasOverrideKeywords(rule)
            THEN last.outcome = "string" /\ last.messageContent = overridePrompt
            ELSE IF any # <<>>
            THEN last.outcome = "string" /\ last.messageContent = Capitalised(any[1])
            ELSE all # <<>> =>
                    /\ last.outcome = "string"
                    /\ last.messageContent =
                           SpaceJoined([k \in 1..Len(all) |-> Capitalised(all[k])])

(***************************************************************************)
(* C26: as stated: prompt round-trip.  Every Tier 2 rule that has a        *)
(* display prompt is satisfied by the text of its own prompt, the fixed    *)
(* prompt of a rule with further All keywords included.                    *)
(***************************************************************************)
C26_PromptRoundTrip == last.op = "testOwnPrompt" => last.accepted

(***************************************************************************)
(* C27: growth of the history per submission.  The step of an accepted     *)
(* submission keeps the existing turns and adds at most 2 turns, at most   *)
(* one of them a User turn and at most one a Model turn; an accepted typed *)
(* submission that a rule resolves adds exactly its User turn and then the *)
(* Model turn of the rule; an accepted prompt click adds no turn or one    *)
(* Model turn; and the settling of a call adds exactly one Model turn.     *)
(***************************************************************************)
AddedTurns(older, newer) == SubSeq(newer, Len(older) + 1, Len(newer))

WithRole(turns, role) == {k \in DOMAIN turns : turns[k].role = role}

Selection(tier1Rules, tier2Rules, message) ==
    LET first == MatcherFires(tier1Rules, message)
        second == MatcherFires(tier2Rules, message)
    IN  IF first > 0
        THEN [tier |-> 1, rule |-> first, response |-> tier1Rules[first].response]
        ELSE IF second > 0
        THEN [tier |-> 2, rule |-> second, response |-> tier2Rules[second].response]
        ELSE [tier |-> 3, rule |-> 0, response |-> <<>>]

C28_SelectionIgnoresHistory ==
    /\ [](Submitted =>
            LET selected == Selection(localHiddenPrompts, rawCannedResponses,
                                      last.messageContent)
            IN  /\ last.tier = selected.tier
                /\ last.rule = selected.rule
                /\ selected.tier \in {1, 2} =>
                       /\ FiredResponse = selected.response
                       /\ EndsWith(chatHistory, <<ModelTurn(selected.response)>>))
    /\ [][ (Submitted /\ Submitted' /\ last'.messageContent = last.messageContent)
           => (last'.tier = last.tier /\ last'.rule = last.rule)
         ]_vars

\* the same message was resolved by the same rule on two different histories
C28_Witness ==
    /\ ResolvedByRule
    /\ EndsWith(chatHistory,
                <<UserTurn(last.messageContent), ModelTurn(FiredResponse),
                  UserTurn(last.messageContent), ModelTurn(FiredResponse)>>)

(***************************************************************************)
(* C29: the resolution scheduled by startThread is deferred by a timer and *)
(* is cancelled when the chat component unmounts or the initial question   *)
(* changes before the timer fires.  Closing the panel disarms the timer    *)
(* and leaves the history as it is; a startThread with another question    *)
(* while a timer is armed leaves one timer, for the new question, and the  *)
(* history [welcome, {User, new question}]; and only an armed timer, for   *)
(* the current question of a mounted component, resolves a question, so a  *)
(* cancelled resolution appends no Model turn.                             *)
(***************************************************************************)
C29_TimerCancelled ==
    [][ /\ last'.op = "close" =>
               /\ timer' = <<>>
               /\ chatHistory' = chatHistory
        /\ (/\ last'.op = "search"
            /\ last'.accepted
            /\ timer # <<>>
            /\ timer[1].question # last'.messageContent) =>
               /\ Len(timer') = 1
               /\ timer'[1].question = last'.messageContent
               /\ chatHistory' = seededHistory(last'.messageContent)
        /\ last'.op = "timer" =>
               /\ Len(timer) = 1
               /\ timer[1].question = last'.messageContent
               /\ initialAccordionQuestion = last'.messageContent
               /\ isAccordionChatExpanded
               /\ timer' = <<>>
      ]_vars

\* the panel was closed before the timer fired: the history is still
\* [welcome, {User, question}] and nothing is left to resolve the question
C29_Witness ==
    /\ last.op = "close"
    /\ initialAccordionQuestion # <<>>
    /\ chatHistory = seededHistory(initialAccordionQuestion)
    /\ timer = <<>>
    /\ inflight = <<>>

(***************************************************************************)
(* C30: in every state after initialisation the history is not empty and   *)
(* its first turn is the Model-role welcome turn: the mount effect leaves  *)
(* [welcome], startThread leaves [welcome, {User, question}], and no other *)
(* operation removes or replaces the first turn.                           *)
(***************************************************************************)
C30_WelcomeFirst ==
    /\ phase = "running" =>
           /\ Len(chatHistory) >= 1
           /\ chatHistory[1] = ModelTurn(personalizedWelcomeMessage)
    /\ last.op = "mount" => chatHistory = <<ModelTurn(personalizedWelcomeMessage)>>
    /\ (last.op = "search" /\ last.accepted) =>
           chatHistory = <<ModelTurn(personalizedWelcomeMessage),
                           UserTurn(last.messageContent)>>

\* a thread started from the search box replaced a longer history and begins
\* with the welcome turn
C30_Witness ==
    /\ last.op = "search"
    /\ last.accepted
    /\ Len(chatHistory) = 2
    /\ chatHistory[1].role = "model"
    /\ chatHistory[1].text = personalizedWelcomeMessage
    /\ inflight # <<>>

====
